---- MODULE Spec2Model ----
(***************************************************************************)
(* Role Lifecycle & Access-Control Service (service/role.go).              *)
(*                                                                         *)
(* The service orchestrates validation, authorization, uniqueness checks   *)
(* and transactions over two external ports: the role repository and the   *)
(* access controller.  The ports are not part of the service source; they  *)
(* are modelled from their documented contract.  Every port call made by   *)
(* an operation is logged, in order, in last.calls.                        *)
(***************************************************************************)
EXTENDS Integers, Sequences, FiniteSets, TLC

\* ---- bounds -------------------------------------------------------------
MaxRoles == 2      \* roles the store may hold
MaxOps == 3        \* service calls in one sequential behaviour
MaxUser == 1       \* user identifiers 0..MaxUser
MaxTarget == 1     \* merge / move target identifiers 0..MaxTarget

\* ---- value sets ---------------------------------------------------------
Names == {"", "n1", "n2"}
WellFormed == {"h1", "h2"}
Handles == WellFormed \cup {"", "9 bad"}
RoleIDs == 0..MaxRoles
UserIDs == 0..MaxUser
TargetIDs == 0..MaxTarget
Procs == {1, 2}

OK == "OK"
ErrInvalidID == "InvalidID"
ErrInvalidHandle == "InvalidHandle"
ErrNoPermissions == "NoPermission"
ErrNoCreatePermissions == "NoCreatePermission"
ErrNoUpdatePermissions == "NoUpdatePermission"
ErrRoleNameNotUnique == "RoleNameNotUnique"
ErrRoleHandleNotUnique == "RoleHandleNotUnique"
ErrNotAllowedMembers == "Not allowed to manage role members"
ErrRoleNotFound == "NotFound"
ErrNotApplicable == "NotApplicable"
ErrPersistence == "PersistenceError"
ErrTxConflict == "TransactionConflict"

\* ---- data model ---------------------------------------------------------
\* A role: identity, unique name and handle, lifecycle flags, merge / move
\* relationships.
Role(id, name, handle, del, arch, merged, org) ==
    [ID |-> id, Name |-> name, Handle |-> handle, DeletedAt |-> del,
     ArchivedAt |-> arch, MergedInto |-> merged, OrgID |-> org]

\* The zero value of types.Role; also stands behind a nil *types.Role.
ZeroRole == Role(0, "", "", FALSE, FALSE, 0, 0)

\* A caller-supplied payload.
Payloads == {Role(id, n, h, FALSE, FALSE, 0, 0) : id \in RoleIDs, n \in Names, h \in Handles}

\* What a repository lookup returns: (role, nil) or (nil, err).
Found(r) == [nil |-> FALSE, ex |-> r, err |-> OK]
Missing(e) == [nil |-> TRUE, ex |-> ZeroRole, err |-> e]

\* The access controller's verdicts for the acting identity during one call,
\* and the read-visibility predicate it hands out (the readable role IDs).
\* Ac(S, F): every way of granting a subset of the capabilities S, the other
\* capabilities being denied, with a predicate drawn from F.
Ac(S, F) ==
    {[access |-> "access" \in T, create |-> "create" \in T, read |-> "read" \in T,
      update |-> "update" \in T, delete |-> "delete" \in T, manage |-> "manage" \in T,
      filter |-> flt] : T \in SUBSET S, flt \in F}

NoAc == [access |-> FALSE, create |-> FALSE, read |-> FALSE, update |-> FALSE,
         delete |-> FALSE, manage |-> FALSE, filter |-> {}]

RoleFilters == [Deleted : 0..2, IsReadable : SUBSET (1..MaxRoles)]

\* The payloads of Update: a caller may send any value in the fields the
\* service is not meant to change.
UpdatePayloads ==
    Payloads \cup {[p EXCEPT !.DeletedAt = TRUE, !.ArchivedAt = TRUE,
                             !.MergedInto = 1, !.OrgID = 1] : p \in Payloads}

\* Persistence faults the repository may suffer during one call.
NoFault == "none"
FaultKinds == {NoFault, "handleLookup", "nameLookup", "write", "writeDirty"}

VARIABLES store, members, before, beforeMembers, last, nops, faulty,
          pc, req, txn, res

vars == <<store, members, before, beforeMembers, last, nops, faulty,
          pc, req, txn, res>>

\* ---- access-control port ------------------------------------------------
AcLog(name, verdict) == name \o (IF verdict THEN ":true" ELSE ":false")

\* ---- handle validity (pkg/handle) ----------------------------------------
IsValid(h) == h # "" /\ h \in WellFormed

\* ---- repository port ----------------------------------------------------
RepoFindByID(st, id) ==
    IF id \in DOMAIN st THEN Found(st[id]) ELSE Missing(ErrRoleNotFound)

\* Possible results of a lookup by handle: any role owning the handle.
RepoFindByHandle(st, h, fault) ==
    IF fault = "handleLookup" THEN {Missing(ErrPersistence)}
    ELSE LET M == {i \in DOMAIN st : st[i].Handle = h}
         IN IF M = {} THEN {Missing(ErrRoleNotFound)} ELSE {Found(st[i]) : i \in M}

RepoFindByName(st, n, fault) ==
    IF fault = "nameLookup" THEN {Missing(ErrPersistence)}
    ELSE LET M == {i \in DOMAIN st : st[i].Name = n}
         IN IF M = {} THEN {Missing(ErrRoleNotFound)} ELSE {Found(st[i]) : i \in M}

\* Search: the roles the injected predicate admits, scoped by the
\* deletion-visibility flag (0 non-deleted, 1 archived, 2 deleted).
RepoFind(st, f) ==
    {st[i] : i \in {j \in DOMAIN st :
        /\ j \in f.IsReadable
        /\ CASE f.Deleted = 0 -> ~st[j].DeletedAt
             [] f.Deleted = 1 -> st[j].ArchivedAt
             [] OTHER -> st[j].DeletedAt}}

\* Create persists the payload under a fresh non-zero ID.
RepoCreate(st, mod) == Append(st, [mod EXCEPT !.ID = Len(st) + 1])

RepoUpdate(st, t) == [st EXCEPT ![t.ID] = t]

RepoDeleteByID(st, id) == [st EXCEPT ![id].DeletedAt = TRUE]
RepoUndeleteByID(st, id) == [st EXCEPT ![id].DeletedAt = FALSE]
RepoArchiveByID(st, id) == [st EXCEPT ![id].ArchivedAt = TRUE]
RepoUnarchiveByID(st, id) == [st EXCEPT ![id].ArchivedAt = FALSE]
RepoMergeByID(st, id, target) == [st EXCEPT ![id].MergedInto = target]
RepoMoveByID(st, id, org) == [st EXCEPT ![id].OrgID = org]

RepoMemberAddByID(mem, roleID, userID) == mem \cup {<<roleID, userID>>}
RepoMemberRemoveByID(mem, roleID, userID) == mem \ {<<roleID, userID>>}
RepoMemberFindByRoleID(mem, roleID) == {m \in mem : m[1] = roleID}
RepoMembershipsFindByUserID(mem, userID) == {m \in mem : m[2] = userID}

\* A transition on a role that is already in the requested state is either
\* accepted (idempotent) or refused with a not-applicable signal.
TransitionErrs(applicable) == IF applicable THEN {OK} ELSE {OK, ErrNotApplicable}

\* Unit of work: runs the closure on the current state and commits its writes
\* only if it returned no error; otherwise everything is rolled back.
Transaction(st, closure) == IF closure.err = OK THEN closure.st ELSE st

\* ---- service ------------------------------------------------------------
\* An operation's outcome: error, returned roles, resulting store and
\* membership, and the port calls made, in order.
Outcome(err, ret, st, mem, calls) ==
    [err |-> err, ret |-> ret, st |-> st, mem |-> mem, calls |-> calls]

\* UniqueCheck without its second half: the name is never looked up.
UniqueCheck_HandleOnly(st, r, fault) ==
    IF r.Handle # ""
    THEN {IF ~x.nil /\ x.ex.ID > 0 /\ x.ex.ID # r.ID THEN ErrRoleHandleNotUnique ELSE OK :
          x \in RepoFindByHandle(st, r.Handle, fault)}
    ELSE {OK}

\* UniqueCheck counting a failed lookup as a conflict.
UniqueCheck_FailClosed(st, r, fault) ==
    LET hErrs == IF r.Handle # ""
                 THEN {IF x.err = ErrPersistence \/ (~x.nil /\ x.ex.ID > 0 /\ x.ex.ID # r.ID)
                       THEN ErrRoleHandleNotUnique ELSE OK :
                       x \in RepoFindByHandle(st, r.Handle, fault)}
                 ELSE {OK}
        nErrs == IF r.Name # ""
                 THEN {IF x.err = ErrPersistence \/ (~x.nil /\ x.ex.ID > 0 /\ x.ex.ID # r.ID)
                       THEN ErrRoleNameNotUnique ELSE OK :
                       x \in RepoFindByName(st, r.Name, fault)}
                 ELSE {OK}
    IN {IF h # OK THEN h ELSE n : h \in hErrs, n \in nErrs}

\* The possible verdicts of UniqueCheck(r).
UniqueCheck(st, r, fault) ==
    LET hErrs == IF r.Handle # ""
                 THEN {IF ~x.nil /\ x.ex.ID > 0 /\ x.ex.ID # r.ID
                       THEN ErrRoleHandleNotUnique ELSE OK :
                       x \in RepoFindByHandle(st, r.Handle, fault)}
                 ELSE {OK}
        nErrs == IF r.Name # ""
                 THEN {IF ~x.nil /\ x.ex.ID > 0 /\ x.ex.ID # r.ID
                       THEN ErrRoleNameNotUnique ELSE OK :
                       x \in RepoFindByName(st, r.Name, fault)}
                 ELSE {OK}
    IN {IF h # OK THEN h ELSE n : h \in hErrs, n \in nErrs}

\* Port calls UniqueCheck makes, given its verdict.
UniqueCheckCalls(r, uerr) ==
    (IF r.Handle # "" THEN <<"repo.FindByHandle">> ELSE <<>>)
    \o (IF r.Name # "" /\ uerr # ErrRoleHandleNotUnique THEN <<"repo.FindByName">> ELSE <<>>)

\* What the closure of a transaction leaves behind: its error, the value it
\* assigned to the captured result t, the working store and the calls made.
Closure(err, t, st, calls) == [err |-> err, t |-> t, st |-> st, calls |-> calls]

Nil == Missing(OK)
RetOf(t) == IF t.nil THEN {} ELSE {t.ex}

\* "return t, svc.db.Transaction(...)": the order in which the operand t and
\* the call are evaluated is not fixed by the language, so the returned role
\* is t as it was before the call (nil) or as the closure left it.
EvalOrders == {"operandFirst", "callFirst"}
Returned(order, t) == IF order = "operandFirst" THEN {} ELSE RetOf(t)

\* The repository write of Create, inside the transaction.
CreateWrite(st, mod, fault, calls) ==
    LET st2 == RepoCreate(st, mod)
        log == calls \o <<"repo.Create">>
    IN CASE fault = "write" -> Closure(ErrPersistence, Nil, st, log)
         [] fault = "writeDirty" -> Closure(ErrPersistence, Found(st2[Len(st2)]), st2, log)
         [] OTHER -> Closure(OK, Found(st2[Len(st2)]), st2, log)

CreateClosure(st, mod, fault) ==
    {IF uerr # OK
     THEN Closure(uerr, Nil, st, UniqueCheckCalls(mod, uerr))
     ELSE CreateWrite(st, mod, fault, UniqueCheckCalls(mod, uerr)) :
     uerr \in UniqueCheck(st, mod, fault)}

\* The checks of Create in the other order: permission first, handle second.
CreateGate_PermissionFirst(mod, ac) ==
    IF ~ac.create
    THEN [err |-> ErrNoCreatePermissions, calls |-> <<AcLog("ac.CanCreateRole", FALSE)>>]
    ELSE IF ~IsValid(mod.Handle)
    THEN [err |-> ErrInvalidHandle, calls |-> <<AcLog("ac.CanCreateRole", TRUE)>>]
    ELSE [err |-> OK, calls |-> <<AcLog("ac.CanCreateRole", TRUE)>>]

\* The checks Create makes before it opens the transaction.
CreateGate(mod, ac) ==
    IF ~IsValid(mod.Handle) THEN [err |-> ErrInvalidHandle, calls |-> <<>>]
    ELSE IF ~ac.create
    THEN [err |-> ErrNoCreatePermissions, calls |-> <<AcLog("ac.CanCreateRole", FALSE)>>]
    ELSE [err |-> OK, calls |-> <<AcLog("ac.CanCreateRole", TRUE)>>]

\* Create with the closure run outside a unit of work: its writes stay even
\* when it returns an error.
Create_NoTransaction(st, mem, mod, ac, fault, order) ==
    IF ~IsValid(mod.Handle) THEN {Outcome(ErrInvalidHandle, {}, st, mem, <<>>)}
    ELSE IF ~ac.create
    THEN {Outcome(ErrNoCreatePermissions, {}, st, mem, <<AcLog("ac.CanCreateRole", FALSE)>>)}
    ELSE {Outcome(c.err, Returned(order, c.t), c.st, mem,
                  <<AcLog("ac.CanCreateRole", TRUE), "db.Transaction">> \o c.calls) :
          c \in CreateClosure(st, mod, fault)}

Create(st, mem, mod, ac, fault, order) ==
    LET g == CreateGate(mod, ac)
    IN IF g.err # OK THEN {Outcome(g.err, {}, st, mem, g.calls)}
       ELSE {Outcome(c.err, Returned(order, c.t), Transaction(st, c), mem,
                     g.calls \o <<"db.Transaction">> \o c.calls) :
             c \in CreateClosure(st, mod, fault)}

\* The repository write of Update, inside the transaction.
UpdateWrite(st, t, fault, calls) ==
    LET st2 == RepoUpdate(st, t)
        log == calls \o <<"repo.Update">>
    IN CASE fault = "write" -> Closure(ErrPersistence, Nil, st, log)
         [] fault = "writeDirty" -> Closure(ErrPersistence, Found(t), st2, log)
         [] OTHER -> Closure(OK, Found(t), st2, log)

\* The closure of Update persisting the payload itself instead of the fetched
\* role with the two mutable fields assigned.
UpdateClosure_WritesPayload(st, mod, fault) ==
    LET f == RepoFindByID(st, mod.ID)
    IN IF f.err # OK THEN {Closure(f.err, Nil, st, <<"repo.FindByID">>)}
       ELSE {IF uerr # OK
             THEN Closure(uerr, f, st, <<"repo.FindByID">> \o UniqueCheckCalls(mod, uerr))
             ELSE UpdateWrite(st, mod, fault,
                              <<"repo.FindByID">> \o UniqueCheckCalls(mod, uerr)) :
             uerr \in UniqueCheck(st, mod, fault)}

UpdateClosure(st, mod, fault) ==
    LET f == RepoFindByID(st, mod.ID)
    IN IF f.err # OK THEN {Closure(f.err, Nil, st, <<"repo.FindByID">>)}
       ELSE {IF uerr # OK
             THEN Closure(uerr, f, st, <<"repo.FindByID">> \o UniqueCheckCalls(mod, uerr))
             ELSE UpdateWrite(st, [f.ex EXCEPT !.Name = mod.Name, !.Handle = mod.Handle], fault,
                              <<"repo.FindByID">> \o UniqueCheckCalls(mod, uerr)) :
             uerr \in UniqueCheck(st, mod, fault)}

\* Update looking the stored role up before it asks for the update capability.
Update_FetchBeforePermission(st, mem, mod, ac, fault, order) ==
    IF mod.ID = 0 THEN {Outcome(ErrInvalidID, {}, st, mem, <<>>)}
    ELSE IF ~IsValid(mod.Handle) THEN {Outcome(ErrInvalidHandle, {}, st, mem, <<>>)}
    ELSE IF RepoFindByID(st, mod.ID).err # OK
    THEN {Outcome(RepoFindByID(st, mod.ID).err, {}, st, mem, <<"repo.FindByID">>)}
    ELSE IF ~ac.update
    THEN {Outcome(ErrNoUpdatePermissions, {}, st, mem,
                  <<"repo.FindByID", AcLog("ac.CanUpdateRole", FALSE)>>)}
    ELSE {Outcome(c.err, Returned(order, c.t), Transaction(st, c), mem,
                  <<AcLog("ac.CanUpdateRole", TRUE), "db.Transaction">> \o c.calls) :
          c \in UpdateClosure(st, mod, fault)}

Update(st, mem, mod, ac, fault, order) ==
    IF mod.ID = 0 THEN {Outcome(ErrInvalidID, {}, st, mem, <<>>)}
    ELSE IF ~IsValid(mod.Handle) THEN {Outcome(ErrInvalidHandle, {}, st, mem, <<>>)}
    ELSE IF ~ac.update
    THEN {Outcome(ErrNoUpdatePermissions, {}, st, mem, <<AcLog("ac.CanUpdateRole", FALSE)>>)}
    ELSE {Outcome(c.err, Returned(order, c.t), Transaction(st, c), mem,
                  <<AcLog("ac.CanUpdateRole", TRUE), "db.Transaction">> \o c.calls) :
          c \in UpdateClosure(st, mod, fault)}

\* findByID treating an archived role as absent.
findByID_HidesArchived(st, roleID, ac) ==
    IF roleID = 0 THEN [err |-> ErrInvalidID, role |-> ZeroRole, calls |-> <<>>]
    ELSE LET f == RepoFindByID(st, roleID)
         IN IF f.err # OK \/ f.ex.ArchivedAt
            THEN [err |-> ErrRoleNotFound, role |-> ZeroRole, calls |-> <<"repo.FindByID">>]
            ELSE IF ~ac.read
            THEN [err |-> ErrNoPermissions, role |-> ZeroRole,
                  calls |-> <<"repo.FindByID", AcLog("ac.CanReadRole", FALSE)>>]
            ELSE [err |-> OK, role |-> f.ex,
                  calls |-> <<"repo.FindByID", AcLog("ac.CanReadRole", TRUE)>>]

\* findByID: the read gate shared by the operations on an existing role.
findByID(st, roleID, ac) ==
    IF roleID = 0 THEN [err |-> ErrInvalidID, role |-> ZeroRole, calls |-> <<>>]
    ELSE LET f == RepoFindByID(st, roleID)
         IN IF f.err # OK
            THEN [err |-> f.err, role |-> ZeroRole, calls |-> <<"repo.FindByID">>]
            ELSE IF ~ac.read
            THEN [err |-> ErrNoPermissions, role |-> ZeroRole,
                  calls |-> <<"repo.FindByID", AcLog("ac.CanReadRole", FALSE)>>]
            ELSE [err |-> OK, role |-> f.ex,
                  calls |-> <<"repo.FindByID", AcLog("ac.CanReadRole", TRUE)>>]

FindByID(st, mem, roleID, ac) ==
    LET g == findByID(st, roleID, ac)
    IN {Outcome(g.err, IF g.err = OK THEN {g.role} ELSE {}, st, mem, g.calls)}

\* Find asking for CanAccess only when the flag exceeds 1.
Find_OffByOne(st, mem, f, ac) ==
    LET f2 == [f EXCEPT !.IsReadable = ac.filter]
    IN IF f2.Deleted > 1 /\ ~ac.access
       THEN {Outcome(ErrNoPermissions, {}, st, mem,
                     <<"ac.FilterReadableRoles", AcLog("ac.CanAccess", FALSE)>>)}
       ELSE {Outcome(OK, RepoFind(st, f2), st, mem,
                     <<"ac.FilterReadableRoles">>
                     \o (IF f2.Deleted > 1 THEN <<AcLog("ac.CanAccess", TRUE)>> ELSE <<>>)
                     \o <<"repo.Find">>)}

\* The filter left untouched: the caller's IsReadable reaches the repository.
InjectIsReadable_KeepsCallers(f, ac) == f

\* "f.IsReadable = svc.ac.FilterReadableRoles(svc.ctx)": the filter Find works
\* with carries the predicate of the access-control port.
InjectIsReadable(f, ac) == [f EXCEPT !.IsReadable = ac.filter]

\* Find returns the matched set and the filter it handed to the repository.
Find(st, mem, f, ac) ==
    LET f2 == InjectIsReadable(f, ac)
    IN IF f2.Deleted > 0 /\ ~ac.access
       THEN {Outcome(ErrNoPermissions, {}, st, mem,
                     <<"ac.FilterReadableRoles", AcLog("ac.CanAccess", FALSE)>>)}
       ELSE {Outcome(OK, RepoFind(st, f2), st, mem,
                     <<"ac.FilterReadableRoles">>
                     \o (IF f2.Deleted > 0 THEN <<AcLog("ac.CanAccess", TRUE)>> ELSE <<>>)
                     \o <<"repo.Find">>)}

FindByName(st, mem, rolename) ==
    {Outcome(x.err, RetOf(x), st, mem, <<"repo.FindByName">>) :
     x \in RepoFindByName(st, rolename, NoFault)}

FindByHandle(st, mem, handle) ==
    {Outcome(x.err, RetOf(x), st, mem, <<"repo.FindByHandle">>) :
     x \in RepoFindByHandle(st, handle, NoFault)}

\* Delete gated, like Archive, by the update capability.
Delete_UpdateGate(st, mem, roleID, ac) ==
    LET g == findByID(st, roleID, ac)
    IN IF g.err # OK THEN {Outcome(g.err, {}, st, mem, g.calls)}
       ELSE IF ~ac.update
       THEN {Outcome(ErrNoPermissions, {}, st, mem, g.calls \o <<AcLog("ac.CanUpdateRole", FALSE)>>)}
       ELSE {Outcome(e, {}, IF e = OK THEN RepoDeleteByID(st, roleID) ELSE st, mem,
                     g.calls \o <<AcLog("ac.CanUpdateRole", TRUE), "repo.DeleteByID">>) :
             e \in TransitionErrs(~st[roleID].DeletedAt)}

Delete(st, mem, roleID, ac) ==
    LET g == findByID(st, roleID, ac)
    IN IF g.err # OK THEN {Outcome(g.err, {}, st, mem, g.calls)}
       ELSE IF ~ac.delete
       THEN {Outcome(ErrNoPermissions, {}, st, mem, g.calls \o <<AcLog("ac.CanDeleteRole", FALSE)>>)}
       ELSE {Outcome(e, {}, IF e = OK THEN RepoDeleteByID(st, roleID) ELSE st, mem,
                     g.calls \o <<AcLog("ac.CanDeleteRole", TRUE), "repo.DeleteByID">>) :
             e \in TransitionErrs(~st[roleID].DeletedAt)}

\* Undelete issuing the delete transition.
Undelete_Deletes(st, mem, roleID, ac) ==
    LET g == findByID(st, roleID, ac)
    IN IF g.err # OK THEN {Outcome(g.err, {}, st, mem, g.calls)}
       ELSE IF ~ac.delete
       THEN {Outcome(ErrNoPermissions, {}, st, mem, g.calls \o <<AcLog("ac.CanDeleteRole", FALSE)>>)}
       ELSE {Outcome(OK, {}, RepoDeleteByID(st, roleID), mem,
                     g.calls \o <<AcLog("ac.CanDeleteRole", TRUE), "repo.DeleteByID">>)}

Undelete(st, mem, roleID, ac) ==
    LET g == findByID(st, roleID, ac)
    IN IF g.err # OK THEN {Outcome(g.err, {}, st, mem, g.calls)}
       ELSE IF ~ac.delete
       THEN {Outcome(ErrNoPermissions, {}, st, mem, g.calls \o <<AcLog("ac.CanDeleteRole", FALSE)>>)}
       ELSE {Outcome(e, {}, IF e = OK THEN RepoUndeleteByID(st, roleID) ELSE st, mem,
                     g.calls \o <<AcLog("ac.CanDeleteRole", TRUE), "repo.UndeleteByID">>) :
             e \in TransitionErrs(st[roleID].DeletedAt)}

Archive(st, mem, roleID, ac) ==
    LET g == findByID(st, roleID, ac)
    IN IF g.err # OK THEN {Outcome(g.err, {}, st, mem, g.calls)}
       ELSE IF ~ac.update
       THEN {Outcome(ErrNoPermissions, {}, st, mem, g.calls \o <<AcLog("ac.CanUpdateRole", FALSE)>>)}
       ELSE {Outcome(e, {}, IF e = OK THEN RepoArchiveByID(st, roleID) ELSE st, mem,
                     g.calls \o <<AcLog("ac.CanUpdateRole", TRUE), "repo.ArchiveByID">>) :
             e \in TransitionErrs(~st[roleID].ArchivedAt)}

\* Unarchive looking at the fetched role's state and issuing no transition
\* for a role that is not archived.
Unarchive_ChecksState(st, mem, roleID, ac) ==
    LET g == findByID(st, roleID, ac)
    IN IF g.err # OK THEN {Outcome(g.err, {}, st, mem, g.calls)}
       ELSE IF ~ac.update
       THEN {Outcome(ErrNoPermissions, {}, st, mem, g.calls \o <<AcLog("ac.CanUpdateRole", FALSE)>>)}
       ELSE IF ~st[roleID].ArchivedAt
       THEN {Outcome(OK, {}, st, mem, g.calls \o <<AcLog("ac.CanUpdateRole", TRUE)>>)}
       ELSE {Outcome(OK, {}, RepoUnarchiveByID(st, roleID), mem,
                     g.calls \o <<AcLog("ac.CanUpdateRole", TRUE), "repo.UnarchiveByID">>)}

Unarchive(st, mem, roleID, ac) ==
    LET g == findByID(st, roleID, ac)
    IN IF g.err # OK THEN {Outcome(g.err, {}, st, mem, g.calls)}
       ELSE IF ~ac.update
       THEN {Outcome(ErrNoPermissions, {}, st, mem, g.calls \o <<AcLog("ac.CanUpdateRole", FALSE)>>)}
       ELSE {Outcome(e, {}, IF e = OK THEN RepoUnarchiveByID(st, roleID) ELSE st, mem,
                     g.calls \o <<AcLog("ac.CanUpdateRole", TRUE), "repo.UnarchiveByID">>) :
             e \in TransitionErrs(st[roleID].ArchivedAt)}

Merge(st, mem, roleID, targetID, ac) ==
    LET g == findByID(st, roleID, ac)
    IN IF g.err # OK THEN {Outcome(g.err, {}, st, mem, g.calls)}
       ELSE IF targetID = 0 THEN {Outcome(ErrInvalidID, {}, st, mem, g.calls)}
       ELSE IF ~ac.update
       THEN {Outcome(ErrNoPermissions, {}, st, mem, g.calls \o <<AcLog("ac.CanUpdateRole", FALSE)>>)}
       ELSE {Outcome(OK, {}, RepoMergeByID(st, roleID, targetID), mem,
                     g.calls \o <<AcLog("ac.CanUpdateRole", TRUE), "repo.MergeByID">>)}

\* Move checking the target container only after the transition was issued.
Move_TargetCheckLast(st, mem, roleID, targetID, ac) ==
    LET g == findByID(st, roleID, ac)
    IN IF g.err # OK THEN {Outcome(g.err, {}, st, mem, g.calls)}
       ELSE IF ~ac.update
       THEN {Outcome(ErrNoPermissions, {}, st, mem, g.calls \o <<AcLog("ac.CanUpdateRole", FALSE)>>)}
       ELSE IF targetID = 0
       THEN {Outcome(ErrInvalidID, {}, st, mem,
                     g.calls \o <<AcLog("ac.CanUpdateRole", TRUE), "repo.MoveByID">>)}
       ELSE {Outcome(OK, {}, RepoMoveByID(st, roleID, targetID), mem,
                     g.calls \o <<AcLog("ac.CanUpdateRole", TRUE), "repo.MoveByID">>)}

Move(st, mem, roleID, targetID, ac) ==
    LET g == findByID(st, roleID, ac)
    IN IF g.err # OK THEN {Outcome(g.err, {}, st, mem, g.calls)}
       ELSE IF targetID = 0 THEN {Outcome(ErrInvalidID, {}, st, mem, g.calls)}
       ELSE IF ~ac.update
       THEN {Outcome(ErrNoPermissions, {}, st, mem, g.calls \o <<AcLog("ac.CanUpdateRole", FALSE)>>)}
       ELSE {Outcome(OK, {}, RepoMoveByID(st, roleID, targetID), mem,
                     g.calls \o <<AcLog("ac.CanUpdateRole", TRUE), "repo.MoveByID">>)}

\* Membership and MemberList return role members, kept in last.retm.
Membership(st, mem, userID) ==
    {Outcome(OK, {}, st, mem, <<"repo.MembershipsFindByUserID">>)}

MemberList(st, mem, roleID, ac) ==
    LET g == findByID(st, roleID, ac)
    IN IF g.err # OK THEN {Outcome(g.err, {}, st, mem, g.calls)}
       ELSE {Outcome(OK, {}, st, mem, g.calls \o <<"repo.MemberFindByRoleID">>)}

\* MemberAdd without the check of the user identifier.
MemberAdd_NoUserCheck(st, mem, roleID, userID, ac) ==
    LET g == findByID(st, roleID, ac)
    IN IF g.err # OK THEN {Outcome(g.err, {}, st, mem, g.calls)}
       ELSE IF ~ac.manage
       THEN {Outcome(ErrNotAllowedMembers, {}, st, mem,
                     g.calls \o <<AcLog("ac.CanManageRoleMembers", FALSE)>>)}
       ELSE {Outcome(OK, {}, st, RepoMemberAddByID(mem, roleID, userID),
                     g.calls \o <<AcLog("ac.CanManageRoleMembers", TRUE), "repo.MemberAddByID">>)}

MemberAdd(st, mem, roleID, userID, ac) ==
    LET g == findByID(st, roleID, ac)
    IN IF g.err # OK THEN {Outcome(g.err, {}, st, mem, g.calls)}
       ELSE IF userID = 0 THEN {Outcome(ErrInvalidID, {}, st, mem, g.calls)}
       ELSE IF ~ac.manage
       THEN {Outcome(ErrNotAllowedMembers, {}, st, mem,
                     g.calls \o <<AcLog("ac.CanManageRoleMembers", FALSE)>>)}
       ELSE {Outcome(OK, {}, st, RepoMemberAddByID(mem, roleID, userID),
                     g.calls \o <<AcLog("ac.CanManageRoleMembers", TRUE), "repo.MemberAddByID">>)}

MemberRemove(st, mem, roleID, userID, ac) ==
    LET g == findByID(st, roleID, ac)
    IN IF g.err # OK THEN {Outcome(g.err, {}, st, mem, g.calls)}
       ELSE IF userID = 0 THEN {Outcome(ErrInvalidID, {}, st, mem, g.calls)}
       ELSE IF ~ac.manage
       THEN {Outcome(ErrNotAllowedMembers, {}, st, mem,
                     g.calls \o <<AcLog("ac.CanManageRoleMembers", FALSE)>>)}
       ELSE {Outcome(OK, {}, st, RepoMemberRemoveByID(mem, roleID, userID),
                     g.calls \o <<AcLog("ac.CanManageRoleMembers", TRUE), "repo.MemberRemoveByID">>)}

\* ---- state machine: sequential service calls -------------------------------
NoFilter == [Deleted |-> 0, IsReadable |-> {}]

LastRec(op, o, mod, id, arg, f, ac, retm, fault) ==
    [op |-> op, err |-> o.err, mod |-> mod, id |-> id, arg |-> arg, f |-> f, ac |-> ac,
     ret |-> o.ret, retm |-> retm, calls |-> o.calls, fault |-> fault]

NoOutcome == Outcome(OK, {}, <<>>, {}, <<>>)

\* No call is in progress and none is waiting to be collected.
Idle == LastRec("idle", NoOutcome, ZeroRole, 0, 0, NoFilter, NoAc, {}, NoFault)

Faults == IF faulty THEN FaultKinds ELSE {NoFault}

Init ==
    /\ store = <<>>
    /\ members = {}
    /\ before = <<>>
    /\ beforeMembers = {}
    /\ last = Idle
    /\ nops = 0
    /\ faulty = FALSE
    /\ pc = [p \in Procs |-> "idle"]
    /\ req = [p \in Procs |-> [mod |-> ZeroRole, create |-> FALSE]]
    /\ txn = [p \in Procs |-> [seen |-> <<>>, work |-> <<>>]]
    /\ res = [p \in Procs |-> OK]

\* The same service over a repository that may suffer persistence faults.
InitFault ==
    /\ store = <<>>
    /\ members = {}
    /\ before = <<>>
    /\ beforeMembers = {}
    /\ last = Idle
    /\ nops = 0
    /\ faulty = TRUE
    /\ pc = [p \in Procs |-> "idle"]
    /\ req = [p \in Procs |-> [mod |-> ZeroRole, create |-> FALSE]]
    /\ txn = [p \in Procs |-> [seen |-> <<>>, work |-> <<>>]]
    /\ res = [p \in Procs |-> OK]

\* One completed service call: the store and membership it leaves, the state
\* it started from, and the record of the call.
Ready == last = Idle /\ nops < MaxOps

Step(rec, o) ==
    /\ store' = o.st
    /\ members' = o.mem
    /\ before' = store
    /\ beforeMembers' = members
    /\ last' = rec
    /\ nops' = nops + 1
    /\ UNCHANGED <<faulty, pc, req, txn, res>>

CallFindByID ==
    /\ Ready
    /\ \E roleID \in RoleIDs, ac \in Ac({"read"}, {{}}) :
           \E o \in FindByID(store, members, roleID, ac) :
               Step(LastRec("FindByID", o, ZeroRole, roleID, 0, NoFilter, ac, {}, NoFault), o)

CallFind ==
    /\ Ready
    /\ \E f \in RoleFilters, ac \in Ac({"access", "read"}, SUBSET (1..MaxRoles)) :
           \E o \in Find(store, members, f, ac) :
               Step(LastRec("Find", o, ZeroRole, 0, 0, f, ac, {}, NoFault), o)

CallFindByName ==
    /\ Ready
    /\ \E n \in Names :
           \E o \in FindByName(store, members, n) :
               Step(LastRec("FindByName", o, [ZeroRole EXCEPT !.Name = n], 0, 0, NoFilter, NoAc, {}, NoFault), o)

CallFindByHandle ==
    /\ Ready
    /\ \E h \in Handles :
           \E o \in FindByHandle(store, members, h) :
               Step(LastRec("FindByHandle", o, [ZeroRole EXCEPT !.Handle = h], 0, 0, NoFilter, NoAc, {}, NoFault), o)

CallCreate ==
    /\ Ready
    /\ Len(store) < MaxRoles
    /\ \E mod \in Payloads, ac \in Ac({"create"}, {{}}), fault \in Faults, order \in EvalOrders :
        \E o \in Create(store, members, mod, ac, fault, order) :
            Step(LastRec("Create", o, mod, 0, 0, NoFilter, ac, {}, fault), o)

CallUpdate ==
    /\ Ready
    /\ \E mod \in UpdatePayloads, ac \in Ac({"update"}, {{}}), fault \in Faults, order \in EvalOrders :
           \E o \in Update(store, members, mod, ac, fault, order) :
               Step(LastRec("Update", o, mod, 0, 0, NoFilter, ac, {}, fault), o)

CallUniqueCheck ==
    /\ Ready
    /\ \E r \in Payloads, fault \in Faults :
           \E uerr \in UniqueCheck(store, r, fault) :
               LET o == Outcome(uerr, {}, store, members, UniqueCheckCalls(r, uerr))
               IN Step(LastRec("UniqueCheck", o, r, 0, 0, NoFilter, NoAc, {}, fault), o)

CallDelete ==
    /\ Ready
    /\ \E roleID \in RoleIDs, ac \in Ac({"read", "delete", "update"}, {{}}) :
           \E o \in Delete(store, members, roleID, ac) :
               Step(LastRec("Delete", o, ZeroRole, roleID, 0, NoFilter, ac, {}, NoFault), o)

CallUndelete ==
    /\ Ready
    /\ \E roleID \in RoleIDs, ac \in Ac({"read", "delete", "update"}, {{}}) :
           \E o \in Undelete(store, members, roleID, ac) :
               Step(LastRec("Undelete", o, ZeroRole, roleID, 0, NoFilter, ac, {}, NoFault), o)

CallArchive ==
    /\ Ready
    /\ \E roleID \in RoleIDs, ac \in Ac({"read", "update", "delete"}, {{}}) :
           \E o \in Archive(store, members, roleID, ac) :
               Step(LastRec("Archive", o, ZeroRole, roleID, 0, NoFilter, ac, {}, NoFault), o)

CallUnarchive ==
    /\ Ready
    /\ \E roleID \in RoleIDs, ac \in Ac({"read", "update", "delete"}, {{}}) :
           \E o \in Unarchive(store, members, roleID, ac) :
               Step(LastRec("Unarchive", o, ZeroRole, roleID, 0, NoFilter, ac, {}, NoFault), o)

CallMerge ==
    /\ Ready
    /\ \E roleID \in RoleIDs, targetRoleID \in TargetIDs, ac \in Ac({"read", "update"}, {{}}) :
           \E o \in Merge(store, members, roleID, targetRoleID, ac) :
               Step(LastRec("Merge", o, ZeroRole, roleID, targetRoleID, NoFilter, ac, {}, NoFault), o)

CallMove ==
    /\ Ready
    /\ \E roleID \in RoleIDs, targetOrganisationID \in TargetIDs, ac \in Ac({"read", "update"}, {{}}) :
           \E o \in Move(store, members, roleID, targetOrganisationID, ac) :
               Step(LastRec("Move", o, ZeroRole, roleID, targetOrganisationID, NoFilter, ac, {}, NoFault), o)

CallMembership ==
    /\ Ready
    /\ \E userID \in UserIDs :
           \E o \in Membership(store, members, userID) :
               Step(LastRec("Membership", o, ZeroRole, 0, userID, NoFilter, NoAc,
                            RepoMembershipsFindByUserID(members, userID), NoFault), o)

CallMemberList ==
    /\ Ready
    /\ \E roleID \in RoleIDs, ac \in Ac({"read"}, {{}}) :
           \E o \in MemberList(store, members, roleID, ac) :
               Step(LastRec("MemberList", o, ZeroRole, roleID, 0, NoFilter, ac,
                            IF o.err = OK THEN RepoMemberFindByRoleID(members, roleID) ELSE {},
                            NoFault), o)

CallMemberAdd ==
    /\ Ready
    /\ \E roleID \in RoleIDs, userID \in UserIDs, ac \in Ac({"read", "manage", "update"}, {{}}) :
           \E o \in MemberAdd(store, members, roleID, userID, ac) :
               Step(LastRec("MemberAdd", o, ZeroRole, roleID, userID, NoFilter, ac, {}, NoFault), o)

CallMemberRemove ==
    /\ Ready
    /\ \E roleID \in RoleIDs, userID \in UserIDs, ac \in Ac({"read", "manage", "update"}, {{}}) :
           \E o \in MemberRemove(store, members, roleID, userID, ac) :
               Step(LastRec("MemberRemove", o, ZeroRole, roleID, userID, NoFilter, ac, {}, NoFault), o)

\* The caller collects the result of the completed call.
Return ==
    /\ last # Idle
    /\ last' = Idle
    /\ before' = store
    /\ beforeMembers' = members
    /\ UNCHANGED <<store, members, nops, faulty, pc, req, txn, res>>

Next ==
    \/ Return
    \/ CallFindByID
    \/ CallFind
    \/ CallFindByName
    \/ CallFindByHandle
    \/ CallCreate
    \/ CallUpdate
    \/ CallUniqueCheck
    \/ CallDelete
    \/ CallUndelete
    \/ CallArchive
    \/ CallUnarchive
    \/ CallMerge
    \/ CallMove
    \/ CallMembership
    \/ CallMemberList
    \/ CallMemberAdd
    \/ CallMemberRemove

Spec == Init /\ [][Next]_vars

SpecFault == InitFault /\ [][Next]_vars

\* ---- state machine: two concurrent Create calls ---------------------------
\* Each process runs Create step by step: the checks before the transaction,
\* then inside it the uniqueness check and the repository write, then the
\* commit.  Writes stay private to the transaction until it commits.  The
\* unit of work serializes or fails overlapping transactions: a commit is
\* refused with a conflict when the store is no longer the one the
\* transaction read.
ConcBegin(p) ==
    /\ pc[p] = "idle"
    /\ \E mod \in Payloads, ac \in Ac({"create"}, {{}}) :
        LET g == CreateGate(mod, ac)
        IN /\ req' = [req EXCEPT ![p] = [mod |-> mod, create |-> ac.create]]
           /\ res' = [res EXCEPT ![p] = g.err]
           /\ pc' = [pc EXCEPT ![p] = IF g.err # OK THEN "done" ELSE "check"]
    /\ UNCHANGED <<store, members, before, beforeMembers, last, nops, faulty, txn>>

ConcUniqueCheck(p) ==
    /\ pc[p] = "check"
    /\ \E uerr \in UniqueCheck(store, req[p].mod, NoFault) :
        /\ res' = [res EXCEPT ![p] = uerr]
        /\ pc' = [pc EXCEPT ![p] = IF uerr # OK THEN "done" ELSE "write"]
    /\ txn' = [txn EXCEPT ![p] = [seen |-> store, work |-> store]]
    /\ UNCHANGED <<store, members, before, beforeMembers, last, nops, faulty, req>>

ConcWrite(p) ==
    /\ pc[p] = "write"
    /\ Len(txn[p].seen) < MaxRoles
    /\ LET c == CreateWrite(txn[p].seen, req[p].mod, NoFault, <<>>)
       IN txn' = [txn EXCEPT ![p].work = c.st]
    /\ pc' = [pc EXCEPT ![p] = "commit"]
    /\ UNCHANGED <<store, members, before, beforeMembers, last, nops, faulty, req, res>>

ConcCommit(p) ==
    /\ pc[p] = "commit"
    /\ LET err == IF store = txn[p].seen THEN OK ELSE ErrTxConflict
       IN /\ store' = Transaction(store, Closure(err, Nil, txn[p].work, <<>>))
          /\ res' = [res EXCEPT ![p] = err]
    /\ pc' = [pc EXCEPT ![p] = "done"]
    /\ UNCHANGED <<members, before, beforeMembers, last, nops, faulty, req, txn>>

NextConc ==
    \E p \in Procs :
        \/ ConcBegin(p)
        \/ ConcUniqueCheck(p)
        \/ ConcWrite(p)
        \/ ConcCommit(p)

SpecConc == Init /\ [][NextConc]_vars

\* ---- properties -----------------------------------------------------------
Owners(st, h) == {i \in DOMAIN st : st[i].Handle = h}
NameOwners(st, n) == {i \in DOMAIN st : st[i].Name = n}

\* C1: two concurrent Create calls by authorized callers with the same valid
\* handle: at most one succeeds, the other returns RoleHandleNotUnique or a
\* persistence-level conflict, and the store never holds two roles with that
\* handle.
C1_ConcurrentCreate ==
    (/\ \A p \in Procs : pc[p] = "done" /\ req[p].create
     /\ req[1].mod.Handle = req[2].mod.Handle
     /\ IsValid(req[1].mod.Handle))
    => /\ ~(res[1] = OK /\ res[2] = OK)
       /\ \E p \in Procs : res[p] \in {ErrRoleHandleNotUnique, ErrTxConflict}
       /\ Cardinality(Owners(store, req[1].mod.Handle)) <= 1

\* C1, restricted to payloads whose ID is unset (0): the restriction under
\* which the code does keep the two calls apart.
C1_UnsetPayloadID ==
    (\A p \in Procs : req[p].mod.ID = 0) => C1_ConcurrentCreate

Changed == store # before \/ members # beforeMembers

Called(name) == \E i \in DOMAIN last.calls : last.calls[i] = name

\* C2: no two distinct stored roles share a non-empty Name, nor a non-empty
\* Handle, in any state reached by any sequence of service calls.
C2_UniqueNameAndHandle ==
    \A i, j \in DOMAIN store :
        i # j => /\ (store[i].Name # "" => store[i].Name # store[j].Name)
                 /\ (store[i].Handle # "" => store[i].Handle # store[j].Handle)

\* The repository mutation primitives and the capability check each of the
\* service's operations owes before invoking one.
MutationPrimitives ==
    {"repo.Create", "repo.Update", "repo.DeleteByID", "repo.UndeleteByID",
     "repo.ArchiveByID", "repo.UnarchiveByID", "repo.MergeByID", "repo.MoveByID",
     "repo.MemberAddByID", "repo.MemberRemoveByID"}

CapabilityOf(prim) ==
    CASE prim = "repo.Create" -> "ac.CanCreateRole"
      [] prim \in {"repo.DeleteByID", "repo.UndeleteByID"} -> "ac.CanDeleteRole"
      [] prim \in {"repo.MemberAddByID", "repo.MemberRemoveByID"} -> "ac.CanManageRoleMembers"
      [] OTHER -> "ac.CanUpdateRole"

OpCapability(op) ==
    CASE op = "Create" -> "ac.CanCreateRole"
      [] op \in {"Delete", "Undelete"} -> "ac.CanDeleteRole"
      [] op \in {"MemberAdd", "MemberRemove"} -> "ac.CanManageRoleMembers"
      [] OTHER -> "ac.CanUpdateRole"

MutatingOps ==
    {"Create", "Update", "Delete", "Undelete", "Archive", "Unarchive", "Merge", "Move",
     "MemberAdd", "MemberRemove"}

\* C3: a repository mutation primitive is invoked only after the capability
\* check of the operation returned true within the same call, the store
\* changes only in a call whose capability check returned true, and a call
\* whose capability check returned false leaves the store unchanged.
C3_AuthorizedBeforeMutation ==
    /\ \A i \in DOMAIN last.calls :
           last.calls[i] \in MutationPrimitives
           => \E j \in 1..(i - 1) : last.calls[j] = AcLog(CapabilityOf(last.calls[i]), TRUE)
    /\ Changed => last.op \in MutatingOps /\ Called(AcLog(OpCapability(last.op), TRUE))
    /\ (last.op \in MutatingOps /\ Called(AcLog(OpCapability(last.op), FALSE))) => ~Changed

\* A delete went through on the strength of a granted delete capability while
\* the update capability was denied.
C3_Witness ==
    /\ last.op = "Delete" /\ last.err = OK /\ ~last.ac.update
    /\ Called("repo.DeleteByID") /\ store[last.id].DeletedAt /\ ~before[last.id].DeletedAt

\* C4: whenever Create or Update returns an error, whether raised by
\* UniqueCheck, by the lookup of the stored role or by the repository write
\* inside the transaction, the stored roles are exactly what they were before
\* the call; the transaction commits only when its closure returned no error.
C4_NoPartialSuccess ==
    (last.op \in {"Create", "Update"} /\ last.err # OK) => ~Changed

\* A write that reached the working state of the transaction and then failed,
\* and a uniqueness failure.
C4_Witness ==
    /\ last.op \in {"Create", "Update"} /\ last.fault = "writeDirty"
    /\ last.err = ErrPersistence /\ Called("db.Transaction")
    /\ (Called("repo.Create") \/ Called("repo.Update"))
    /\ store = before

\* C5: Create with an empty handle, or one failing the handle-validity
\* predicate, returns InvalidHandle whatever the caller's capabilities, and
\* makes no port call: no capability check, no lookup, no repository write.
C5_InvalidHandleRejected ==
    (last.op = "Create" /\ (last.mod.Handle = "" \/ last.mod.Handle \notin WellFormed))
    => last.err = ErrInvalidHandle /\ last.calls = <<>> /\ ~Changed /\ last.ret = {}

\* An invalid handle sent by a caller who lacks the create capability.
C5_Witness ==
    /\ last.op = "Create" /\ last.mod.Handle \in {"", "9 bad"} /\ ~last.ac.create
    /\ last.err = ErrInvalidHandle

\* C6: of two sequential Create calls by a caller holding the create
\* capability, with the same valid handle that no stored role owned
\* beforehand (and a name that is free), the first succeeds and yields a role
\* with a non-zero ID; the second, finding the handle owned, fails with
\* RoleHandleNotUnique and adds no role.
C6_SecondCreateRejected ==
    /\ (/\ last.op = "Create" /\ last.ac.create /\ IsValid(last.mod.Handle)
        /\ last.fault = NoFault
        /\ Owners(before, last.mod.Handle) = {}
        /\ (last.mod.Name = "" \/ NameOwners(before, last.mod.Name) = {}))
       => /\ last.err = OK
          /\ Len(store) = Len(before) + 1
          /\ store[Len(store)].ID # 0
          /\ store[Len(store)].Handle = last.mod.Handle
          /\ last.ret \subseteq {store[Len(store)]}
    /\ (/\ last.op = "Create" /\ last.ac.create /\ IsValid(last.mod.Handle)
        /\ last.fault = NoFault
        /\ Owners(before, last.mod.Handle) # {})
       => last.err = ErrRoleHandleNotUnique /\ store = before

\* C6, restricted to payloads whose ID is unset (0).
C6_UnsetPayloadID ==
    (last.op = "Create" /\ last.mod.ID = 0) => C6_SecondCreateRejected

\* The stored roles, other than the one with identifier id, that own a handle
\* or a name.
OtherOwners(st, h, id) == Owners(st, h) \ {id}
OtherNameOwners(st, n, id) == NameOwners(st, n) \ {id}

UpdateOfStored ==
    /\ last.op = "Update" /\ last.fault = NoFault
    /\ last.mod.ID \in DOMAIN before
    /\ IsValid(last.mod.Handle)
    /\ last.ac.update

\* C7 as stated: an Update of stored role A by a caller with update
\* capability, with a valid handle and a non-empty Name owned by a stored role
\* other than A, fails with RoleNameNotUnique and leaves A's stored Name and
\* Handle unchanged.
C7_AsStated ==
    (/\ UpdateOfStored
     /\ last.mod.Name # ""
     /\ OtherNameOwners(before, last.mod.Name, last.mod.ID) # {})
    => /\ last.err = ErrRoleNameNotUnique
       /\ store[last.mod.ID].Name = before[last.mod.ID].Name
       /\ store[last.mod.ID].Handle = before[last.mod.ID].Handle

\* C7, amended: when the Name is owned only by stored roles other than A, the
\* Update fails and the store is unchanged; the error is RoleHandleNotUnique
\* only if the payload's Handle is owned by a stored role other than A (the
\* handle is checked first), and RoleNameNotUnique otherwise.
C7_NameConflictRejected ==
    (/\ UpdateOfStored
     /\ last.mod.Name # ""
     /\ OtherNameOwners(before, last.mod.Name, last.mod.ID) # {}
     /\ last.mod.ID \notin NameOwners(before, last.mod.Name))
    => /\ last.err \in {ErrRoleNameNotUnique, ErrRoleHandleNotUnique}
       /\ last.err = ErrRoleHandleNotUnique
          => OtherOwners(before, last.mod.Handle, last.mod.ID) # {}
       /\ OtherOwners(before, last.mod.Handle, last.mod.ID) = {}
          => last.err = ErrRoleNameNotUnique
       /\ store = before

\* An Update that tried to take another role's name, with a handle of its own.
C7_Witness ==
    /\ UpdateOfStored
    /\ last.mod.Name # ""
    /\ OtherNameOwners(before, last.mod.Name, last.mod.ID) # {}
    /\ last.mod.ID \notin NameOwners(before, last.mod.Name)
    /\ last.mod.Handle # before[last.mod.ID].Handle
    /\ last.err = ErrRoleNameNotUnique
    /\ store = before

\* C8: Find with the deleted-visibility flag set, by a caller for whom
\* CanAccess is false, returns NoPermission without reaching the repository's
\* Find, whatever CanReadRole says; with the flag not set CanAccess is not
\* consulted and the repository's Find is reached.
C8_FindDeletedNeedsAccess ==
    /\ (last.op = "Find" /\ last.f.Deleted > 0 /\ ~last.ac.access)
       => /\ last.err = ErrNoPermissions
          /\ ~Called("repo.Find")
          /\ last.ret = {}
    /\ (last.op = "Find" /\ last.f.Deleted = 0)
       => /\ last.err = OK
          /\ Called("repo.Find")
          /\ ~Called(AcLog("ac.CanAccess", TRUE)) /\ ~Called(AcLog("ac.CanAccess", FALSE))

\* A caller who can read roles, and whose predicate admits a deleted role,
\* is refused the deleted view for want of CanAccess.
C8_Witness ==
    /\ last.op = "Find" /\ last.f.Deleted > 0 /\ ~last.ac.access /\ last.ac.read
    /\ \E i \in last.ac.filter : i \in DOMAIN store /\ store[i].DeletedAt
    /\ last.err = ErrNoPermissions

\* C9 as stated: for every roleID, MemberAdd(roleID, 0) fails with InvalidID
\* and never invokes the repository's MemberAddByID.
C9_AsStated ==
    (last.op = "MemberAdd" /\ last.arg = 0)
    => last.err = ErrInvalidID /\ ~Called("repo.MemberAddByID")

\* C9, amended: MemberAdd(roleID, 0) never invokes MemberAddByID and always
\* fails: with InvalidID when roleID is 0 or when the role is found and
\* readable, and otherwise with the error of the role lookup, which comes
\* first (not found, or NoPermission when the caller cannot read the role).
C9_ZeroUserRejected ==
    (last.op = "MemberAdd" /\ last.arg = 0)
    => /\ ~Called("repo.MemberAddByID")
       /\ ~Changed
       /\ last.err = (IF last.id = 0 THEN ErrInvalidID
                      ELSE IF last.id \notin DOMAIN before THEN ErrRoleNotFound
                      ELSE IF ~last.ac.read THEN ErrNoPermissions
                      ELSE ErrInvalidID)

\* A member-managing caller adds user 0 to a stored, readable role.
C9_Witness ==
    /\ last.op = "MemberAdd" /\ last.arg = 0 /\ last.id \in DOMAIN store
    /\ last.ac.read /\ last.ac.manage
    /\ last.err = ErrInvalidID /\ members = beforeMembers

\* The role with identifier i is returned by Find under the default filter to
\* every caller whose read-visibility predicate admits it.
VisibleByDefault(st, i) ==
    \A S \in SUBSET (1..MaxRoles) :
        i \in S => st[i] \in RepoFind(st, [Deleted |-> 0, IsReadable |-> S])

\* C10: for a stored, non-deleted role and a caller holding read and delete
\* capability on it, Delete succeeds and hides the role from the default
\* filter; Undelete of the role so deleted succeeds and leaves it visible
\* again under the default filter, every other field as it was.
C10_UndeleteReversesDelete ==
    /\ (/\ last.op = "Delete" /\ last.id \in DOMAIN before /\ ~before[last.id].DeletedAt
        /\ last.ac.read /\ last.ac.delete)
       => /\ last.err = OK
          /\ store = [before EXCEPT ![last.id].DeletedAt = TRUE]
          /\ ~VisibleByDefault(store, last.id)
    /\ (/\ last.op = "Undelete" /\ last.id \in DOMAIN before /\ before[last.id].DeletedAt
        /\ last.ac.read /\ last.ac.delete)
       => /\ last.err = OK
          /\ store = [before EXCEPT ![last.id].DeletedAt = FALSE]
          /\ VisibleByDefault(store, last.id)

\* A deleted role has been undeleted.
C10_Witness ==
    /\ last.op = "Undelete" /\ last.err = OK
    /\ last.id \in DOMAIN before /\ before[last.id].DeletedAt
    /\ ~VisibleByDefault(before, last.id)
    /\ VisibleByDefault(store, last.id)

\* The archived-scoped filters and the callers a search may come from.
ArchivedScoped == {f \in RoleFilters : f.Deleted = 1}
FindCallers == Ac({"access", "read"}, SUBSET (1..MaxRoles))

\* C11: after a successful Archive(i), FindByID(i) by any caller who can read
\* the role succeeds and returns it, and an archived-scoped Find returns it
\* only to callers for whom CanAccess is true: callers without CanAccess get
\* NoPermission and no role, callers with it whose read-visibility predicate
\* admits the role get it.
C11_ArchivedStillFound ==
    /\ (last.op = "Archive" /\ last.err = OK)
       => /\ last.id \in DOMAIN store /\ store[last.id].ArchivedAt
          /\ \A ac \in FindCallers :
                 /\ ac.read => \A o \in FindByID(store, members, last.id, ac) :
                                   o.err = OK /\ o.ret = {store[last.id]}
                 /\ \A f \in ArchivedScoped : \A o \in Find(store, members, f, ac) :
                        /\ ~ac.access => o.err = ErrNoPermissions /\ o.ret = {}
                        /\ store[last.id] \in o.ret => ac.access
                        /\ (ac.access /\ last.id \in ac.filter)
                           => o.err = OK /\ store[last.id] \in o.ret
    /\ (/\ last.op = "FindByID" /\ last.id \in DOMAIN before
        /\ before[last.id].ArchivedAt /\ last.ac.read)
       => last.err = OK /\ last.ret = {before[last.id]}
    /\ (last.op = "Find" /\ last.f.Deleted = 1)
       => /\ ~last.ac.access => last.err = ErrNoPermissions /\ last.ret = {}
          /\ last.ac.access
             => /\ last.err = OK
                /\ \A i \in DOMAIN before :
                       (before[i].ArchivedAt /\ i \in last.ac.filter) => before[i] \in last.ret

\* A role was created and archived, and a caller holding CanAccess then got
\* it from an archived-scoped Find.
C11_Witness ==
    /\ last.op = "Find" /\ last.f.Deleted = 1 /\ last.ac.access /\ last.err = OK
    /\ \E r \in last.ret : r.ArchivedAt /\ ~r.DeletedAt

\* The validation and authorization errors, and the Repository Port calls.
RejectionErrs ==
    {ErrInvalidID, ErrInvalidHandle, ErrNoPermissions, ErrNoCreatePermissions,
     ErrNoUpdatePermissions, ErrNotAllowedMembers}

RepoReads ==
    {"repo.FindByID", "repo.FindByName", "repo.FindByHandle", "repo.Find",
     "repo.MemberFindByRoleID", "repo.MembershipsFindByUserID"}

RepoCalls == RepoReads \cup MutationPrimitives \cup {"db.Transaction"}

RepoCallsMade == {i \in DOMAIN last.calls : last.calls[i] \in RepoCalls}

\* C12 as stated: whenever an operation returns a validation error or an
\* authorization error, no Repository Port call of any kind, read or write,
\* was made during that operation.
C12_AsStated ==
    last.err \in RejectionErrs => RepoCallsMade = {}

\* The operations that fetch the role through findByID before their own checks.
FetchFirstOps ==
    {"FindByID", "Delete", "Undelete", "Archive", "Unarchive", "Merge", "Move",
     "MemberList", "MemberAdd", "MemberRemove"}

\* C12, amended: an operation that returns a validation or authorization
\* error made no repository write and opened no transaction, and left roles
\* and memberships unchanged; the only Repository Port call it can have made
\* is the one lookup by ID of findByID, made by the operations that authorize
\* against the fetched role when the role ID is not 0 and the role exists.
\* Create, Update and Find return these errors without any repository call.
C12_NoWriteOnRejection ==
    last.err \in RejectionErrs
    => /\ ~Changed
       /\ \A i \in RepoCallsMade : last.calls[i] = "repo.FindByID"
       /\ Cardinality(RepoCallsMade) <= 1
       /\ RepoCallsMade # {}
          <=> (last.op \in FetchFirstOps /\ last.id \in DOMAIN before)

\* A caller who may read but not delete the stored role is refused after the
\* role was fetched.
C12_Witness ==
    /\ last.op = "Delete" /\ last.id \in DOMAIN before
    /\ last.ac.read /\ ~last.ac.delete
    /\ last.err = ErrNoPermissions
    /\ last.calls[1] = "repo.FindByID"

\* The completed call was given an identifier equal to 0: a role ID, a target
\* role or container ID, a user ID, or the ID of the payload of Update (the
\* payload of Create carries ID 0 to mean a new role).
ZeroIDCall ==
    \/ last.op \in FetchFirstOps /\ last.id = 0
    \/ last.op \in {"Merge", "Move", "MemberAdd", "MemberRemove", "Membership"} /\ last.arg = 0
    \/ last.op = "Update" /\ last.mod.ID = 0

\* C13: an operation called with an identifier argument equal to 0 is
\* rejected with an error and reaches no repository write, and no stored role
\* has ID 0.
C13_ZeroIDRejected ==
    /\ ZeroIDCall
       => /\ last.err # OK
          /\ \A i \in DOMAIN last.calls : last.calls[i] \notin MutationPrimitives
          /\ ~Changed
    /\ \A i \in DOMAIN store : store[i].ID # 0

\* C13 for every operation but Membership.
C13_ExceptMembership ==
    last.op # "Membership" => C13_ZeroIDRejected

\* C14: no operation returns both a result and an error: whenever a call
\* returns an error, in particular a Create or an Update whose transaction
\* failed, the returned role is nil and no roles or members are returned.
C14_ResultXorError ==
    last.err # OK => last.ret = {} /\ last.retm = {}

\* C14 for every operation but Update.
C14_ExceptUpdate ==
    last.op # "Update" => C14_ResultXorError

\* C15: Update checks, in this order, the payload's ID (0 gives InvalidID
\* whatever the other fields are), the handle (InvalidHandle), and the update
\* capability (NoUpdatePermission), and only then opens the transaction and
\* fetches the stored role: a caller without the capability gets
\* NoUpdatePermission with no repository call even when no stored role has the
\* ID, and the repository's not-found error is returned only after the
\* capability check has passed.
C15_UpdateCheckOrder ==
    last.op = "Update"
    => /\ last.mod.ID = 0 => last.err = ErrInvalidID /\ last.calls = <<>>
       /\ (last.mod.ID # 0 /\ ~IsValid(last.mod.Handle))
          => last.err = ErrInvalidHandle /\ last.calls = <<>>
       /\ (last.mod.ID # 0 /\ IsValid(last.mod.Handle) /\ ~last.ac.update)
          => /\ last.err = ErrNoUpdatePermissions
             /\ last.calls = <<AcLog("ac.CanUpdateRole", FALSE)>>
       /\ (last.mod.ID # 0 /\ IsValid(last.mod.Handle) /\ last.ac.update)
          => /\ Len(last.calls) >= 3
             /\ last.calls[1] = AcLog("ac.CanUpdateRole", TRUE)
             /\ last.calls[2] = "db.Transaction"
             /\ last.calls[3] = "repo.FindByID"
             /\ last.mod.ID \notin DOMAIN before => last.err = ErrRoleNotFound
       /\ last.err = ErrRoleNotFound
          => /\ last.mod.ID \notin DOMAIN before
             /\ last.calls[1] = AcLog("ac.CanUpdateRole", TRUE)
       /\ last.err \in {ErrInvalidID, ErrInvalidHandle, ErrNoUpdatePermissions}
          => RepoCallsMade = {} /\ ~Changed

\* An Update of an ID that no stored role has, by a caller without the update
\* capability, while another role is stored.
C15_Witness ==
    /\ last.op = "Update" /\ last.mod.ID # 0 /\ last.mod.ID \notin DOMAIN before
    /\ before # <<>>
    /\ IsValid(last.mod.Handle) /\ ~last.ac.update
    /\ last.err = ErrNoUpdatePermissions /\ RepoCallsMade = {}

\* C16: a successful Update(mod) leaves the store as it was except for the
\* Name and Handle of the role whose ID is mod.ID, which become mod.Name and
\* mod.Handle; that role's ID, lifecycle state and other fields keep their
\* stored values whatever the payload carries for them, and every other role
\* and every membership is unchanged.
C16_UpdateFrame ==
    (last.op = "Update" /\ last.err = OK)
    => /\ last.mod.ID \in DOMAIN before
       /\ store = [before EXCEPT ![last.mod.ID].Name = last.mod.Name,
                                 ![last.mod.ID].Handle = last.mod.Handle]
       /\ store[last.mod.ID].ID = last.mod.ID
       /\ store[last.mod.ID].DeletedAt = before[last.mod.ID].DeletedAt
       /\ store[last.mod.ID].ArchivedAt = before[last.mod.ID].ArchivedAt
       /\ store[last.mod.ID].MergedInto = before[last.mod.ID].MergedInto
       /\ store[last.mod.ID].OrgID = before[last.mod.ID].OrgID
       /\ \A i \in DOMAIN before : i # last.mod.ID => store[i] = before[i]
       /\ members = beforeMembers

\* An Update renamed one of two stored roles with a payload whose lifecycle
\* fields differ from the stored ones.
C16_Witness ==
    /\ last.op = "Update" /\ last.err = OK /\ Len(before) = 2
    /\ last.mod.DeletedAt # before[last.mod.ID].DeletedAt
    /\ last.mod.ArchivedAt # before[last.mod.ID].ArchivedAt
    /\ last.mod.OrgID # before[last.mod.ID].OrgID
    /\ store[last.mod.ID].Name # before[last.mod.ID].Name
    /\ store[last.mod.ID].Handle # before[last.mod.ID].Handle

\* The completed call ran UniqueCheck on its payload last.mod.
UniqueChecked ==
    \/ last.op = "UniqueCheck"
    \/ last.op = "Create" /\ Called("db.Transaction")
    \/ last.op = "Update" /\ Called("db.Transaction") /\ last.mod.ID \in DOMAIN before

\* A lookup of the payload's handle (name) can yield a conflicting role, one
\* with an ID other than the payload's, and can yield nothing else.
HandleCanConflict ==
    /\ last.mod.Handle # "" /\ last.fault # "handleLookup"
    /\ OtherOwners(before, last.mod.Handle, last.mod.ID) # {}
HandleMustConflict == HandleCanConflict /\ last.mod.ID \notin Owners(before, last.mod.Handle)
NameCanConflict ==
    /\ last.mod.Name # "" /\ last.fault # "nameLookup"
    /\ OtherNameOwners(before, last.mod.Name, last.mod.ID) # {}
NameMustConflict == NameCanConflict /\ last.mod.ID \notin NameOwners(before, last.mod.Name)

\* The write the operation proceeds to when UniqueCheck reports no conflict.
WriteOf(op) == IF op = "Create" THEN "repo.Create" ELSE "repo.Update"

\* C17: a failed lookup by handle (by name) makes UniqueCheck report no
\* handle (name) conflict, and Create and Update then proceed to the write
\* unless the other lookup found a conflict; UniqueCheck returns
\* RoleHandleNotUnique (RoleNameNotUnique) exactly when the lookup yields a
\* stored role whose ID differs from the payload's, the handle being looked
\* up first and its conflict reported without looking the name up.
C17_FailOpenFailClosed ==
    UniqueChecked
    => /\ last.fault = "handleLookup" => last.err # ErrRoleHandleNotUnique
       /\ last.fault = "nameLookup" => last.err # ErrRoleNameNotUnique
       /\ last.err = ErrRoleHandleNotUnique => HandleCanConflict /\ ~Called("repo.FindByName")
       /\ last.err = ErrRoleNameNotUnique => NameCanConflict /\ ~HandleMustConflict
       /\ HandleMustConflict => last.err = ErrRoleHandleNotUnique
       /\ (NameMustConflict /\ ~HandleCanConflict) => last.err = ErrRoleNameNotUnique
       /\ (~HandleCanConflict /\ ~NameCanConflict)
          => /\ last.err \notin {ErrRoleHandleNotUnique, ErrRoleNameNotUnique}
             /\ last.op = "UniqueCheck" => last.err = OK
             /\ last.op \in {"Create", "Update"} => Called(WriteOf(last.op))
       /\ last.mod.Handle # "" => Called("repo.FindByHandle")
       /\ last.err \in {ErrRoleHandleNotUnique, ErrRoleNameNotUnique} => ~Changed

\* The lookup by handle failed while another stored role owned the handle,
\* and Create went on to store a second role with it.
C17_Witness ==
    /\ last.op = "Create" /\ last.fault = "handleLookup" /\ last.err = OK
    /\ last.mod.ID \notin Owners(before, last.mod.Handle)
    /\ Owners(before, last.mod.Handle) # {}
    /\ Called("repo.Create") /\ Len(store) = Len(before) + 1

\* The transition each lifecycle operation issues and the capability that
\* gates it.
TransitionOf(op) ==
    CASE op = "Delete" -> "repo.DeleteByID"
      [] op = "Undelete" -> "repo.UndeleteByID"
      [] op = "Archive" -> "repo.ArchiveByID"
      [] OTHER -> "repo.UnarchiveByID"

LifecycleOps == {"Delete", "Undelete", "Archive", "Unarchive"}

GateOf(op) == IF op \in {"Delete", "Undelete"} THEN last.ac.delete ELSE last.ac.update

\* C18: Delete and Undelete issue their transition exactly when the role
\* exists and CanReadRole and CanDeleteRole are true, Archive and Unarchive
\* exactly when the role exists and CanReadRole and CanUpdateRole are true;
\* the other capability and the role's current lifecycle state play no part.
\* The capability is asked after the role was fetched; a failed gate on a
\* stored role returns NoPermission, issues no transition and changes nothing.
C18_LifecycleGates ==
    last.op \in LifecycleOps
    => /\ Called(TransitionOf(last.op))
          <=> (last.id \in DOMAIN before /\ last.ac.read /\ GateOf(last.op))
       /\ \A i \in DOMAIN last.calls :
              last.calls[i] \in MutationPrimitives
              => /\ last.calls[i] = TransitionOf(last.op)
                 /\ i = 4
                 /\ last.calls[1] = "repo.FindByID"
                 /\ last.calls[2] = AcLog("ac.CanReadRole", TRUE)
                 /\ last.calls[3] = AcLog(OpCapability(last.op), TRUE)
       /\ (last.id \in DOMAIN before /\ ~(last.ac.read /\ GateOf(last.op)))
          => last.err = ErrNoPermissions /\ ~Changed
       /\ ~Called(TransitionOf(last.op)) => ~Changed

\* An Undelete of a role that is not deleted, by a caller who may read and
\* delete but not update it, went to the repository.
C18_Witness ==
    /\ last.op = "Undelete" /\ last.id \in DOMAIN before /\ ~before[last.id].DeletedAt
    /\ last.ac.read /\ last.ac.delete /\ ~last.ac.update
    /\ Called("repo.UndeleteByID")

\* C19: the filter Find hands to the repository carries the predicate the
\* access-control port produced for the caller, whatever IsReadable the
\* caller supplied: two Find calls by the same caller whose filters differ
\* only in IsReadable hand the repository the same filter and have the same
\* outcome, no role outside the port's predicate is returned, and the
\* predicate is obtained before the repository is called.
C19_IsReadableInjected ==
    last.op = "Find"
    => /\ InjectIsReadable(last.f, last.ac).IsReadable = last.ac.filter
       /\ \A g \in RoleFilters :
              g.Deleted = last.f.Deleted
              => /\ InjectIsReadable(g, last.ac) = InjectIsReadable(last.f, last.ac)
                 /\ Find(before, beforeMembers, g, last.ac)
                    = Find(before, beforeMembers, last.f, last.ac)
       /\ last.calls[1] = "ac.FilterReadableRoles"
       /\ Called("repo.Find")
          => /\ last.calls[Len(last.calls)] = "repo.Find"
             /\ last.ret = RepoFind(before, [Deleted |-> last.f.Deleted,
                                             IsReadable |-> last.ac.filter])
             /\ \A r \in last.ret : r.ID \in last.ac.filter

\* The caller's own IsReadable admitted a stored role that the port's
\* predicate does not, and the search did not return it.
C19_Witness ==
    /\ last.op = "Find" /\ last.err = OK /\ last.f.Deleted = 0
    /\ \E i \in DOMAIN before :
           /\ i \in last.f.IsReadable /\ i \notin last.ac.filter
           /\ ~before[i].DeletedAt /\ before[i] \notin last.ret
    /\ last.ret # {}

\* A Create that passed the handle and capability checks, on a repository
\* without faults.
CreateAdmitted ==
    /\ last.op = "Create" /\ last.fault = NoFault
    /\ IsValid(last.mod.Handle) /\ last.ac.create

\* C20: Create's uniqueness check does not depend on the payload's ID: when a
\* stored role owns the payload's Handle, Create fails with
\* RoleHandleNotUnique, and when a stored role owns the payload's non-empty
\* Name (and none its Handle), with RoleNameNotUnique, whatever ID the payload
\* carries, the owner's ID included; the store is left unchanged.
C20_CreateIgnoresPayloadID ==
    /\ (CreateAdmitted /\ Owners(before, last.mod.Handle) # {})
       => last.err = ErrRoleHandleNotUnique /\ store = before
    /\ (/\ CreateAdmitted /\ Owners(before, last.mod.Handle) = {}
        /\ last.mod.Name # "" /\ NameOwners(before, last.mod.Name) # {})
       => last.err = ErrRoleNameNotUnique /\ store = before

\* C20 for payloads whose ID is not that of an owner of the Handle or Name.
C20_PayloadIDNotAnOwner ==
    (/\ last.mod.ID \notin Owners(before, last.mod.Handle)
     /\ last.mod.ID \notin NameOwners(before, last.mod.Name))
    => C20_CreateIgnoresPayloadID

====
